---- MODULE Spec2Model ----
(***************************************************************************)
(* A model of the AstroPhotoTraverser scan engine (src/core.py), its       *)
(* configuration (src/config.py, src/models.py) and the worker routine of  *)
(* the front end that drives it (src/gui.py).                              *)
(*                                                                         *)
(* Text is modelled at the level of tokens.  A folder name is a string     *)
(* whose space separated words are given by the table NameWords; a file    *)
(* name is a string whose underscore separated tokens and suffix are given *)
(* by the table FileTable.  Regular expressions are evaluated on these     *)
(* tokens; what a pattern extracts from one token is a per-token table.    *)
(* A path is the sequence of its segments; the scan root is one segment.   *)
(***************************************************************************)
EXTENDS Integers, Sequences, FiniteSets, TLC

VARIABLES
    tree,               \* the directory tree on disk: [nodes, name, files]
    stop_requested,     \* AstroScannerCore.stop_requested
    session_cache,      \* AstroScannerCore.session_cache: folder path -> SessionMetadata
    folder_edit_cache,  \* AstroScannerCore.folder_edit_cache: the folder paths mapped to True
    walkQueue,          \* scan_folder: the directories os.walk has still to yield
    file_list,          \* scan_folder: file_list
    idx,                \* scan_folder: number of candidates the extraction loop has processed
    data_rows,          \* scan_folder: data_rows
    progress_calls,     \* the calls made to the progress callback, <<idx, total>>
    pc,                 \* "scan": inside scan_folder, "returned": scan_folder has returned,
                        \* "done": run_logic has ended
    data,               \* run_logic: the list scan_folder returned
    outcome,            \* run_logic: the terminal outcome shown to the user
    csv_rows,           \* the rows written to astro_inventory.csv (<<>>: not written)
    stopSeen,           \* history: whether a check of the flag was still ahead when it was set
    last_extract        \* history: the locals of the last _extract_metadata call at its return

vars == <<tree, stop_requested, session_cache, folder_edit_cache, walkQueue, file_list,
          idx, data_rows, progress_calls, pc, data, outcome, csv_rows, stopSeen,
          last_extract>>

-----------------------------------------------------------------------------
(* Python values *)

\* Python's None
None == "<None>"

\* a key that is not in a dict
Absent == "<absent>"

\* bool(v) of an optional string
Truthy(v) == v \notin {None, Absent, ""}

\* dict.get(key)
Get(meta, key) == IF meta[key] = Absent THEN None ELSE meta[key]

\* dict.get(key, default)
GetDefault(meta, key, default) == IF meta[key] = Absent THEN default ELSE meta[key]

\* a table lookup with a default for the entries the table leaves out
Lookup(table, key, default) == IF key \in DOMAIN table THEN table[key] ELSE default

\* the elements of a sequence
Range(seq) == {seq[i] : i \in 1..Len(seq)}

-----------------------------------------------------------------------------
(* src/config.py *)

FILE_TYPES ==
    (".fit" :> "fits") @@ (".fits" :> "fits") @@ (".cr2" :> "exif") @@
    (".dng" :> "exif") @@ (".jpg" :> "exif") @@ (".jpeg" :> "exif")

\* the vocabulary in the iteration order of the dict
FILTER_KEYWORDS == <<
    <<"lxtrme", "L-eXtreme">>, <<"lxtreme", "L-eXtreme">>, <<"lextreme", "L-eXtreme">>,
    <<"l-extreme", "L-eXtreme">>, <<"lenhance", "L-eNhance">>, <<"l-enhance", "L-eNhance">>,
    <<"lultimate", "L-Ultimate">>, <<"l-ultimate", "L-Ultimate">>, <<"l-pro", "L-Pro">>,
    <<"lpro", "L-Pro">>, <<"uvir", "UV/IR Cut">>, <<"uv/ir", "UV/IR Cut">>,
    <<"irblock", "UV/IR Cut">>, <<"irblocked", "UV/IR Cut">>, <<"ir-block", "UV/IR Cut">>,
    <<"ir filter", "UV/IR Cut">>, <<"halpha", "Ha">>, <<"ha", "Ha">>, <<"h", "Ha">>,
    <<"oxygen", "OIII">>, <<"oiii", "OIII">>, <<"o3", "OIII">>, <<"o", "OIII">>,
    <<"sulphur", "SII">>, <<"sulfur", "SII">>, <<"sii", "SII">>, <<"s2", "SII">>,
    <<"s", "SII">>, <<"r", "Red">>, <<"g", "Green">>, <<"b", "Blue">>,
    <<"l", "Luminance">>, <<"cls", "CLS">> >>

FilterKeys == {FILTER_KEYWORDS[i][1] : i \in 1..Len(FILTER_KEYWORDS)}

FilterValues == {FILTER_KEYWORDS[i][2] : i \in 1..Len(FILTER_KEYWORDS)}

BroadbandUnknown == "Broadband/Unknown"

CALIBRATION_KEYWORDS == {"darks", "bias", "flats", "calibration"}

EDIT_INDICATORS == {".tif", ".tiff", ".psd"}

ALLOWED_FILE_PREFIXES == {"Preview", "Light", "CRW", "IMG"}

\* a suffix as the pair of the last token and the extension it ends
SKIPPED_FILE_SUFFIXES == {<<"thn", ".jpg">>}

REQUIRED_METADATA_FIELDS ==
    ("fits" :> {"camera", "gain", "temperature", "filter"}) @@
    ("exif" :> {"camera", "gain", "exposure"})

\* dataclasses.fields(SessionMetadata), in order
SessionFields == <<"camera", "filter", "gain", "exposure", "temperature">>

\* SessionMetadata()
SessionMetadata == [f \in Range(SessionFields) |-> None]

-----------------------------------------------------------------------------
(* Text tables: the words of the folder names and the tokens of the file   *)
(* names that occur in the modelled trees.                                 *)

\* the space separated words of a folder name (a name left out is one word)
NameWords ==
    ("2024-05-05 Field" :> <<"2024-05-05", "Field">>) @@
    ("2024-01-01 Home" :> <<"2024-01-01", "Home">>) @@
    ("2000mm Telescope" :> <<"2000mm", "Telescope">>) @@
    ("2024-02-07 flats" :> <<"2024-02-07", "flats">>) @@
    ("2024-02-07 Backyard" :> <<"2024-02-07", "Backyard">>) @@
    ("2024-02-07 Backyard UVIR" :> <<"2024-02-07", "Backyard", "UVIR">>) @@
    ("2024-02-07 Backyard L-Extreme" :> <<"2024-02-07", "Backyard", "L-Extreme">>) @@
    ("2024-02-08 Backyard UVIR" :> <<"2024-02-08", "Backyard", "UVIR">>) @@
    ("2024-03-01 Remote" :> <<"2024-03-01", "Remote">>) @@
    ("20240401 Field Ha" :> <<"20240401", "Field", "Ha">>) @@
    ("2024-06-01 Dome" :> <<"2024-06-01", "Dome">>) @@
    ("Broadband/Unknown" :> <<"Broadband", "Unknown">>)

Words(text) == Lookup(NameWords, text, <<text>>)

\* str.lower() of a word or token (one left out is lower case already)
LowerTable ==
    ("Darks" :> "darks") @@ ("UVIR" :> "uvir") @@ ("L-Extreme" :> "l-extreme") @@
    ("Ha" :> "ha") @@ ("OIII" :> "oiii") @@ ("L" :> "l") @@ ("M42" :> "m42") @@
    ("Backyard" :> "backyard") @@ ("Field" :> "field") @@ ("Home" :> "home") @@
    ("Remote" :> "remote") @@ ("Dome" :> "dome") @@ ("Telescope" :> "telescope") @@
    ("PlayerOne" :> "playerone") @@ ("294MC" :> "294mc") @@ ("ZWO" :> "zwo") @@
    ("Light" :> "light") @@ ("Orion" :> "orion") @@ ("Bin1" :> "bin1") @@
    ("-273C" :> "-273c") @@ ("-10C" :> "-10c") @@ ("IMG" :> "img") @@
    ("Flats" :> "flats") @@ ("Extreme" :> "extreme") @@
    ("This is a nice edit" :> "this is a nice edit") @@
    ("This is a nice stacked result" :> "this is a nice stacked result")

Lower(w) == Lookup(LowerTable, w, w)

\* the words of which a lower-case string is a proper part
ProperSubstrings ==
    ("this is a nice stacked result" :> {"stack", "stacked"})

\* needle in haystack, both lower case
Contains(haystack, needle) ==
    haystack = needle \/ needle \in Lookup(ProperSubstrings, haystack, {})

\* the vocabulary keys that \bkey\b finds in a word, re.IGNORECASE: the word
\* itself and, for a word with hyphens, its parts
WordBoundaryParts ==
    ("l-extreme" :> {"l-extreme", "l", "extreme"})

KeysAtWordBoundary(word) ==
    Lookup(WordBoundaryParts, Lower(word), {Lower(word)}) \cap FilterKeys

\* the words that DATE_FOLDER_RE matches at their start
DateWords ==
    {"2024-05-05", "2024-01-01", "2024-02-07", "2024-02-08", "2024-03-01",
     "20240401", "2024-06-01"}

\* config.DATE_FOLDER_RE.match(name)
DATE_FOLDER_RE_match(name) == name # "" /\ Words(name)[1] \in DateWords

\* config.identify_filter: the first keyword, in vocabulary order, found at
\* word boundaries
identify_filter(folder_name) ==
    LET hits == {i \in 1..Len(FILTER_KEYWORDS) :
                    \E j \in 1..Len(Words(folder_name)) :
                        FILTER_KEYWORDS[i][1] \in KeysAtWordBoundary(Words(folder_name)[j])}
    IN IF hits = {} THEN BroadbandUnknown
       ELSE FILTER_KEYWORDS[CHOOSE i \in hits : \A k \in hits : i <= k][2]

-----------------------------------------------------------------------------
(* File names: the underscore separated tokens of the stem, and the suffix *)

NamedFiles ==
    ("Light_M42_123deg_67.0s_-273C_Bin1_PlayerOne_gain456_001.fits" :>
        [tokens |-> <<"Light", "M42", "123deg", "67.0s", "-273C", "Bin1", "PlayerOne",
                      "gain456", "001">>, suffix |-> ".fits"]) @@
    ("Light_M42_123deg_67.0s_-273C_Bin1_PlayerOne_UVIR_gain456_001.fits" :>
        [tokens |-> <<"Light", "M42", "123deg", "67.0s", "-273C", "Bin1", "PlayerOne",
                      "UVIR", "gain456", "001">>, suffix |-> ".fits"]) @@
    ("Light_Orion_180.0s_Bin1_294MC_L-Extreme_gain120_20250405-214232_-10C_90deg_001.fit" :>
        [tokens |-> <<"Light", "Orion", "180.0s", "Bin1", "294MC", "L-Extreme", "gain120",
                      "20250405-214232", "-10C", "90deg", "001">>, suffix |-> ".fit"]) @@
    ("Light_Orion_180.0s_Bin1_ZWO_294MC_gain120_20250405-214232_-10C_90deg_001.fit" :>
        [tokens |-> <<"Light", "Orion", "180.0s", "Bin1", "ZWO", "294MC", "gain120",
                      "20250405-214232", "-10C", "90deg", "001">>, suffix |-> ".fit"]) @@
    ("Light_Orion_180.0s_Bin1_294MC_gain120_20250405-214232_-10C_90deg_001.fit" :>
        [tokens |-> <<"Light", "Orion", "180.0s", "Bin1", "294MC", "gain120",
                      "20250405-214232", "-10C", "90deg", "001">>, suffix |-> ".fit"]) @@
    ("Light_M42_Ha_002.fits" :>
        [tokens |-> <<"Light", "M42", "Ha", "002">>, suffix |-> ".fits"]) @@
    ("Light_M42_003.fits" :>
        [tokens |-> <<"Light", "M42", "003">>, suffix |-> ".fits"]) @@
    ("Light_UVIR_Bin1_Ha_001.fits" :>
        [tokens |-> <<"Light", "UVIR", "Bin1", "Ha", "001">>, suffix |-> ".fits"]) @@
    ("IMG_1234.jpg" :>
        [tokens |-> <<"IMG", "1234">>, suffix |-> ".jpg"]) @@
    ("Light_M42_10s_thn.jpg" :>
        [tokens |-> <<"Light", "M42", "10s", "thn">>, suffix |-> ".jpg"]) @@
    ("Light_Flats_004.fits" :>
        [tokens |-> <<"Light", "Flats", "004">>, suffix |-> ".fits"]) @@
    ("This is a nice edit.tif" :>
        [tokens |-> <<"This is a nice edit">>, suffix |-> ".tif"]) @@
    ("This is a nice stacked result.fit" :>
        [tokens |-> <<"This is a nice stacked result">>, suffix |-> ".fit"])

\* the most files of the folder of a burst tree
BurstFiles == 51

\* the name a camera gives its n-th frame
FrameName(n) == "IMG_" \o ToString(1000 + n) \o ".jpg"

\* the frames of a burst, as tokens and suffix
FrameFiles ==
    [file_name \in {FrameName(n) : n \in 1..BurstFiles} |->
        [tokens |-> <<"IMG", ToString(1000 + (CHOOSE n \in 1..BurstFiles :
                                                    FrameName(n) = file_name))>>,
         suffix |-> ".jpg"]]

FileTable == NamedFiles @@ FrameFiles

Tokens(file_name) == FileTable[file_name].tokens

\* Path.suffix.lower()
Suffix(file_name) == FileTable[file_name].suffix

\* what each pattern of the file name parser captures from one token
ExposureTokens == ("67.0s" :> "67.0") @@ ("180.0s" :> "180.0") @@ ("10s" :> "10")

BinTokens == ("Bin1" :> "1")

GainTokens == ("gain456" :> "456") @@ ("gain120" :> "120")

TimestampTokens == ("20250405-214232" :> "20250405-214232")

TemperatureTokens == ("-273C" :> "-273") @@ ("-10C" :> "-10")

RotationTokens == ("123deg" :> "123") @@ ("90deg" :> "90")

\* re.split(r'[_\-]', ...): the parts of a token that holds hyphens
HyphenParts ==
    ("-273C" :> <<"273C">>) @@ ("-10C" :> <<"10C">>) @@
    ("L-Extreme" :> <<"L", "Extreme">>) @@
    ("20250405-214232" :> <<"20250405", "214232">>)

\* the parts that ^[A-Za-z0-9]+$ rejects
NotAlphanumeric ==
    {"67.0s", "180.0s", "This is a nice edit", "This is a nice stacked result"}

\* ^\d{8}$|^\d{8}-\d{6}$
TimestampLike == {"20250405", "20250405-214232"}

\* ^(gain|ISO)\d+ , re.IGNORECASE
GainIsoLike == {"gain456", "gain120", "ISO800"}

\* ^\d+$
AllDigits == {"456", "120", "800", "1234", "100"}

MetaKeys ==
    {"exposure", "bin", "camera", "filter", "gain", "timestamp", "temperature", "rotation"}

\* the empty dict
EmptyMeta == [k \in MetaKeys |-> Absent]

\* the least index of a non-empty set of indices
Least(S) == CHOOSE i \in S : \A k \in S : i <= k

\* a match of config.FILE_REGEX whose exposure token is token i, with or
\* without the optional filter token
StrictMatchAt(t, i, withFilter) ==
    LET g == IF withFilter THEN i + 4 ELSE i + 3
    IN /\ i >= 2
       /\ g + 3 <= Len(t)
       /\ t[i] \in DOMAIN ExposureTokens
       /\ t[i + 1] \in DOMAIN BinTokens
       /\ t[g] \in DOMAIN GainTokens
       /\ t[g + 1] \in DOMAIN TimestampTokens
       /\ t[g + 2] \in DOMAIN TemperatureTokens
       /\ t[g + 3] \in DOMAIN RotationTokens

\* a variant of GroupDictAt that takes the camera from the token before the
\* gain token
GroupDictCameraBeforeGain(t, i, g) ==
    [exposure |-> ExposureTokens[t[i]],
     bin |-> BinTokens[t[i + 1]],
     camera |-> t[g - 1],
     filter |-> IF g = i + 4 THEN t[i + 3] ELSE None,
     gain |-> GainTokens[t[g]],
     timestamp |-> TimestampTokens[t[g + 1]],
     temperature |-> TemperatureTokens[t[g + 2]],
     rotation |-> RotationTokens[t[g + 3]]]

\* match.groupdict() of the match whose exposure token is token i and whose
\* gain token is token g
GroupDictAt(t, i, g) ==
    [exposure |-> ExposureTokens[t[i]],
     bin |-> BinTokens[t[i + 1]],
     camera |-> t[i + 2],
     filter |-> IF g = i + 4 THEN t[i + 3] ELSE None,
     gain |-> GainTokens[t[g]],
     timestamp |-> TimestampTokens[t[g + 1]],
     temperature |-> TemperatureTokens[t[g + 2]],
     rotation |-> RotationTokens[t[g + 3]]]

\* the leftmost match, the optional group taken when it can be
LeftmostStrictMatch(t, i) ==
    GroupDictAt(t, i, IF StrictMatchAt(t, i, TRUE) THEN i + 4 ELSE i + 3)

Greatest(S) == CHOOSE m \in S : \A k \in S : k <= m

FILE_REGEX_groupdict(t) ==
    LeftmostStrictMatch(t,
        Least({i \in 1..Len(t) : StrictMatchAt(t, i, TRUE) \/ StrictMatchAt(t, i, FALSE)}))

FILE_REGEX_search(t) ==
    \E i \in 1..Len(t) : StrictMatchAt(t, i, TRUE) \/ StrictMatchAt(t, i, FALSE)

\* re.search of one tolerant pattern: the capture in the first token, from
\* token `from` on, that holds a match
FirstCapture(t, table, from) ==
    LET hits == {i \in from..Len(t) : t[i] \in DOMAIN table}
    IN IF hits = {} THEN Absent ELSE table[t[Least(hits)]]

RECURSIVE SplitParts(_)
\* re.split(r'[_\-]', file_name) without the empty parts
SplitParts(t) ==
    IF t = <<>> THEN <<>>
    ELSE Lookup(HyphenParts, Head(t), <<Head(t)>>) \o SplitParts(Tail(t))

\* the part after part bin_idx, when it is purely alphanumeric (the last
\* part carries the suffix, so it is not)
CameraAfter(parts, bin_idx) ==
    IF bin_idx + 1 < Len(parts) /\ parts[bin_idx + 1] \notin NotAlphanumeric
    THEN parts[bin_idx + 1]
    ELSE Absent

\* the camera token of the tolerant search: the part after the first BinN part
CameraInParts(parts, bin_indices) ==
    IF bin_indices # {} THEN CameraAfter(parts, Least(bin_indices)) ELSE Absent

FallbackCamera(parts) ==
    CameraInParts(parts, {i \in 1..Len(parts) : parts[i] \in DOMAIN BinTokens})

FallbackSearch(t) ==
    [EmptyMeta EXCEPT
        !["exposure"] = FirstCapture(t, ExposureTokens, 1),
        !["bin"] = FirstCapture(t, BinTokens, 1),
        !["gain"] = FirstCapture(t, GainTokens, 1),
        !["temperature"] = FirstCapture(t, TemperatureTokens, 2),
        !["rotation"] = FirstCapture(t, RotationTokens, 2),
        !["timestamp"] = FirstCapture(t, TimestampTokens, 1),
        !["camera"] = FallbackCamera(SplitParts(t))]

_fallback_token_search(file_name) == FallbackSearch(Tokens(file_name))

\* the filename strategy on the tokens of a name: the strict pattern first,
\* the tolerant searches when it does not match
FilenameMetadata(t) ==
    IF FILE_REGEX_search(t) THEN FILE_REGEX_groupdict(t) ELSE FallbackSearch(t)

_get_metadata_from_filename(file_name) == FilenameMetadata(Tokens(file_name))

\* the vocabulary entries whose keyword stands between underscores or hyphens
\* in the file name: a token that is neither the first nor the last
DelimitedKeywordHits(file_name) ==
    LET t == Tokens(file_name)
    IN {i \in 1..Len(FILTER_KEYWORDS) :
            \E j \in 2..(Len(t) - 1) : FILTER_KEYWORDS[i][1] \in KeysAtWordBoundary(t[j])}

\* 1. a camera that is a timestamp or a gain/ISO token is no camera
InvalidateCamera(meta, camera) ==
    IF Truthy(camera) /\ (camera \in TimestampLike \/ camera \in GainIsoLike)
    THEN [meta EXCEPT !["camera"] = None] ELSE meta

\* 2. a camera that is a filter keyword moves to the filter, if none is set
\* (`camera` is the value read before step 1)
MoveCameraToFilter(meta, camera) ==
    IF Truthy(camera) /\ Lower(camera) \in FilterKeys
    THEN [meta EXCEPT !["filter"] = IF Truthy(Get(meta, "filter")) THEN @
                                    ELSE meta["camera"],
                      !["camera"] = None]
    ELSE meta

\* 3. with no filter yet, the first keyword delimited in the file name
FilterFromFilename(meta, hits) ==
    IF ~Truthy(Get(meta, "filter")) /\ hits # {}
    THEN [meta EXCEPT !["filter"] = FILTER_KEYWORDS[Least(hits)][2]] ELSE meta

\* a variant of step 4 that takes the filter of the session folder name only
\* when it is a filter of the vocabulary
FilterFromSessionIfKnown(meta, session_info) ==
    IF ~Truthy(Get(meta, "filter")) \/ meta["filter"] \in {None, BroadbandUnknown}
    THEN [meta EXCEPT !["filter"] = IF identify_filter(session_info) = BroadbandUnknown
                                    THEN None ELSE identify_filter(session_info)]
    ELSE meta

\* 4. with no filter yet, or the sentinel, the filter of the session folder name
FilterFromSession(meta, session_info) ==
    IF ~Truthy(Get(meta, "filter")) \/ meta["filter"] \in {None, BroadbandUnknown}
    THEN [meta EXCEPT !["filter"] = identify_filter(session_info)] ELSE meta

\* a variant of the normalisation that leaves the filter as it was written
KeepFilterToken(meta) == meta

\* a filter that is no canonical name is classified
NormalizeFilter(meta) ==
    IF Truthy(Get(meta, "filter")) /\ meta["filter"] \notin FilterValues
    THEN [meta EXCEPT !["filter"] = identify_filter(meta["filter"])] ELSE meta

\* a gain that is not all digits is no gain
InvalidateGain(meta) ==
    IF Truthy(Get(meta, "gain")) /\ Get(meta, "gain") \notin AllDigits
    THEN [meta EXCEPT !["gain"] = None] ELSE meta

_cleanup_parsed_metadata(meta, file_name, session_info) ==
    InvalidateGain(NormalizeFilter(FilterFromSession(
        FilterFromFilename(
            MoveCameraToFilter(InvalidateCamera(meta, Get(meta, "camera")),
                               Get(meta, "camera")),
            DelimitedKeywordHits(file_name)),
        session_info)))

-----------------------------------------------------------------------------
(* Header extractors.  The content of a file is the name of a row of       *)
(* HeaderCards, or "unreadable" (the open fails, or the optional library   *)
(* is not installed).  A card or tag the file lacks is None.               *)

HeaderCards ==
    ("fits full" :>
        [INSTRUME |-> "ZWO ASI294MC", CAMERA |-> None, GAIN |-> "100", ISO |-> None,
         CCD_TEMP |-> "-5.0", SET_TEMP |-> None, EXPTIME |-> "300.0", FILTER |-> "OIII"]) @@
    ("fits bare" :>
        [INSTRUME |-> None, CAMERA |-> None, GAIN |-> None, ISO |-> None,
         CCD_TEMP |-> None, SET_TEMP |-> None, EXPTIME |-> None, FILTER |-> None]) @@
    ("fits odd" :>
        [INSTRUME |-> None, CAMERA |-> "ZWO ASI294MC", GAIN |-> "high", ISO |-> None,
         CCD_TEMP |-> None, SET_TEMP |-> "-5.0", EXPTIME |-> "300.0",
         FILTER |-> "Clear"]) @@
    ("exif full" :>
        [Model |-> "Canon EOS 600D", ISOSpeedRatings |-> "800", ExposureTime |-> "1/100",
         CameraTemperature |-> None]) @@
    ("exif bare" :>
        [Model |-> None, ISOSpeedRatings |-> None, ExposureTime |-> None,
         CameraTemperature |-> None])

\* str(v)
PyStr(v) == IF v = None THEN "None" ELSE v

\* a or b
Or(a, b) == IF Truthy(a) THEN a ELSE b

\* mapping.get(key, '')
GetOrEmpty(v) == IF v = None THEN "" ELSE v

\* float(num) / float(den), formatted with four decimals and stripped
FractionSeconds == ("1/100" :> "0.01")

_format_exposure_time(exp_time) == Lookup(FractionSeconds, PyStr(exp_time), PyStr(exp_time))

_get_metadata_from_fits_header(content) ==
    IF content \notin DOMAIN HeaderCards \/ "FILTER" \notin DOMAIN HeaderCards[content]
    THEN EmptyMeta
    ELSE LET header == HeaderCards[content]
             raw_filter == header.FILTER
             clean_filter == IF Truthy(raw_filter) THEN identify_filter(raw_filter) ELSE None
         IN [EmptyMeta EXCEPT
                !["camera"] = Or(header.INSTRUME, header.CAMERA),
                !["gain"] = PyStr(Or(GetOrEmpty(header.GAIN), GetOrEmpty(header.ISO))),
                !["temperature"] = PyStr(Or(header.CCD_TEMP, GetOrEmpty(header.SET_TEMP))),
                !["exposure"] = PyStr(GetOrEmpty(header.EXPTIME)),
                !["filter"] = clean_filter]

_get_metadata_from_exif(content) ==
    IF content \notin DOMAIN HeaderCards \/ "Model" \notin DOMAIN HeaderCards[content]
    THEN EmptyMeta
    ELSE LET tags == HeaderCards[content]
         IN [EmptyMeta EXCEPT
                !["camera"] = PyStr(Or(tags.Model, "")),
                !["gain"] = PyStr(Or(tags.ISOSpeedRatings, "")),
                !["exposure"] = _format_exposure_time(tags.ExposureTime),
                !["temperature"] = PyStr(Or(tags.CameraTemperature, ""))]

\* self._extractors[ext](path)
Extractor(ext, content) ==
    IF FILE_TYPES[ext] = "fits" THEN _get_metadata_from_fits_header(content)
    ELSE _get_metadata_from_exif(content)

-----------------------------------------------------------------------------
(* Session cache *)

\* a variant of _sync_session_data that updates the session and pulls nothing
\* from it
_sync_session_data_push_only(meta, session) ==
    [meta |-> meta,
     session |-> [f \in Range(SessionFields) |->
                    IF Truthy(Get(meta, f)) THEN meta[f] ELSE session[f]]]

\* a variant of _sync_session_data that updates the session before it pulls
\* from it, with whatever the mapping holds
_sync_session_data_push_first(meta, session) ==
    [meta |-> [k \in MetaKeys |->
                    IF k \in Range(SessionFields) /\ ~Truthy(Get(meta, k))
                    THEN Get(meta, k) ELSE meta[k]],
     session |-> [f \in Range(SessionFields) |-> Get(meta, f)]]

\* _sync_session_data: the pair of the mapping and the session it leaves
_sync_session_data(meta, session) ==
    LET pulled == [k \in MetaKeys |->
                    IF k \in Range(SessionFields) /\ ~Truthy(Get(meta, k))
                    THEN session[k] ELSE meta[k]]
    IN [meta |-> pulled,
        session |-> [f \in Range(SessionFields) |->
                        IF Truthy(Get(pulled, f)) THEN pulled[f] ELSE session[f]]]

\* a variant of _needs_header_extraction that asks for every required field
\* to be missing
_needs_header_extraction_all_missing(ext, meta) ==
    LET extraction_type == Lookup(FILE_TYPES, ext, None)
        required_fields == Lookup(REQUIRED_METADATA_FIELDS, extraction_type, {})
    IN /\ required_fields # {}
       /\ \A field \in required_fields : ~Truthy(Get(meta, field))

_needs_header_extraction(ext, meta) ==
    LET extraction_type == Lookup(FILE_TYPES, ext, None)
        required_fields == Lookup(REQUIRED_METADATA_FIELDS, extraction_type, {})
    IN \E field \in required_fields : ~Truthy(Get(meta, field))

\* meta.update({k: v for k, v in extracted_meta.items() if v})
UpdateTruthy(meta, extracted_meta) ==
    [k \in MetaKeys |-> IF Truthy(extracted_meta[k]) THEN extracted_meta[k] ELSE meta[k]]

-----------------------------------------------------------------------------
(* Paths: sequences of segments *)

\* Path.parent (the parent of the file system root is itself)
Parent(path) == IF path = <<>> THEN <<>> ELSE SubSeq(path, 1, Len(path) - 1)

\* Path.name
Name(path) == IF path = <<>> THEN "" ELSE path[Len(path)]

\* the words of one segment of a path
TextParts(segment) ==
    IF segment \in DOMAIN FileTable THEN Tokens(segment) ELSE Words(segment)

\* any(keyword in str(path).lower() for keyword in config.CALIBRATION_KEYWORDS)
HasCalibrationKeyword(path) ==
    \E i \in 1..Len(path) : \E j \in 1..Len(TextParts(path[i])) :
        \E keyword \in CALIBRATION_KEYWORDS :
            Contains(Lower(TextParts(path[i])[j]), keyword)

\* the try branch of _get_metadata_from_path (a scanned file is under the root)
\* a variant of PathMetadata that takes the folder before any session below
\* the first for the telescope
PathMetadataNearObject(path, rel_parts, dated) ==
    [obj_name |-> IF Len(rel_parts) > 1 THEN rel_parts[1] ELSE "",
     telescope |-> IF dated # {} /\ Greatest(dated) > 1
                   THEN rel_parts[Greatest(dated) - 1] ELSE "missing info",
     session_info |-> IF dated # {} THEN rel_parts[Greatest(dated)]
                      ELSE Name(Parent(path))]

PathMetadata(path, rel_parts, dated) ==
    [obj_name |-> IF Len(rel_parts) > 1 THEN rel_parts[1] ELSE "",
     telescope |-> IF dated # {} /\ Greatest(dated) > 2
                   THEN rel_parts[Greatest(dated) - 1] ELSE "missing info",
     session_info |-> IF dated # {} THEN rel_parts[Greatest(dated)]
                      ELSE Name(Parent(path))]

\* the folders of rel_parts (all parts but the file name) that match the date
\* pattern; the loop from the deepest folder up stops at the greatest of them
DatedParts(rel_parts) ==
    {i \in 1..(Len(rel_parts) - 1) : DATE_FOLDER_RE_match(rel_parts[i])}

RelativeParts(path, root) == SubSeq(path, Len(root) + 1, Len(path))

_get_metadata_from_path(path, root) ==
    PathMetadata(path, RelativeParts(path, root), DatedParts(RelativeParts(path, root)))

\* a variant of _is_valid_file without the calibration rule
_is_valid_file_any_folder(path, session_info) ==
    /\ DATE_FOLDER_RE_match(session_info)
    /\ Len(Tokens(Name(path))) >= 2 /\ Tokens(Name(path))[1] \in ALLOWED_FILE_PREFIXES
    /\ <<Tokens(Name(path))[Len(Tokens(Name(path)))], Suffix(Name(path))>>
            \notin SKIPPED_FILE_SUFFIXES

_is_valid_file(path, session_info) ==
    LET file_name == Name(path)
        t == Tokens(file_name)
    IN /\ DATE_FOLDER_RE_match(session_info)
       /\ Len(t) >= 2 /\ t[1] \in ALLOWED_FILE_PREFIXES
       /\ ~(Len(t) >= 2 /\ <<t[Len(t)], Suffix(file_name)>> \in SKIPPED_FILE_SUFFIXES)
       /\ ~HasCalibrationKeyword(path)

\* a variant of _has_edits_in_folder that looks for the calibration keyword
\* in the name of the folder, not in its whole path
_has_edits_in_folder_by_name(files, current_dir) ==
    \E n \in 1..Len(files) :
        /\ \/ Suffix(files[n]) \in EDIT_INDICATORS
           \/ \E j \in 1..Len(Tokens(files[n])) : Contains(Lower(Tokens(files[n])[j]), "stack")
        /\ ~HasCalibrationKeyword(<<Name(current_dir)>>)

\* a variant of _has_edits_in_folder without the calibration exemption
_has_edits_in_any_folder(files, current_dir) ==
    \E n \in 1..Len(files) :
        \/ Suffix(files[n]) \in EDIT_INDICATORS
        \/ \E j \in 1..Len(Tokens(files[n])) : Contains(Lower(Tokens(files[n])[j]), "stack")

_has_edits_in_folder(files, current_dir) ==
    \E n \in 1..Len(files) :
        /\ \/ Suffix(files[n]) \in EDIT_INDICATORS
           \/ \E j \in 1..Len(Tokens(files[n])) : Contains(Lower(Tokens(files[n])[j]), "stack")
        /\ ~HasCalibrationKeyword(current_dir)

\* a variant of _bubble_up_edit_status that marks the start folder only
_mark_edit_status(cache, temp_p, root_limit) ==
    IF temp_p # root_limit /\ temp_p # Parent(temp_p) THEN cache \cup {temp_p} ELSE cache

RECURSIVE _bubble_up_edit_status(_, _, _)
\* the cache after marking temp_p and its parents up to the root
_bubble_up_edit_status(cache, temp_p, root_limit) ==
    IF temp_p # root_limit /\ temp_p # Parent(temp_p)
    THEN _bubble_up_edit_status(cache \cup {temp_p}, Parent(temp_p), root_limit)
    ELSE cache

-----------------------------------------------------------------------------
(* The per-file pipeline *)

\* scan_folder's test `if row:` fails on this value (None)
NoRow == [Path |-> <<>>]

\* a variant of _build_result_row that looks up the session folder only
_build_result_row_parent_only(path, meta, obj_name, telescope, session_info, edit_cache) ==
    [Object |-> IF obj_name # "" THEN obj_name ELSE "Unknown",
     Filter |-> GetDefault(meta, "filter", BroadbandUnknown),
     Camera |-> GetDefault(meta, "camera", ""),
     Telescope |-> telescope,
     Exposure |-> GetDefault(meta, "exposure", "0"),
     Bin |-> GetDefault(meta, "bin", "1"),
     Gain |-> GetDefault(meta, "gain", ""),
     Temp |-> GetDefault(meta, "temperature", ""),
     Rotation |-> GetDefault(meta, "rotation", ""),
     Timestamp |-> GetDefault(meta, "timestamp", ""),
     Session_Folder |-> session_info,
     Edits_Detected |-> IF Parent(path) \in edit_cache THEN "Yes" ELSE "No",
     Path |-> path]

_build_result_row(path, meta, obj_name, telescope, session_info, edit_cache) ==
    LET session_path_str == Parent(path)
        object_path_str == Parent(Parent(path))
        has_edits == IF session_path_str \in edit_cache \/ object_path_str \in edit_cache
                     THEN "Yes" ELSE "No"
    IN [Object |-> IF obj_name # "" THEN obj_name ELSE "Unknown",
        Filter |-> GetDefault(meta, "filter", BroadbandUnknown),
        Camera |-> GetDefault(meta, "camera", ""),
        Telescope |-> telescope,
        Exposure |-> GetDefault(meta, "exposure", "0"),
        Bin |-> GetDefault(meta, "bin", "1"),
        Gain |-> GetDefault(meta, "gain", ""),
        Temp |-> GetDefault(meta, "temperature", ""),
        Rotation |-> GetDefault(meta, "rotation", ""),
        Timestamp |-> GetDefault(meta, "timestamp", ""),
        Session_Folder |-> session_info,
        Edits_Detected |-> has_edits,
        Path |-> path]

\* _extract_metadata is one pass through the stages below; each hands its
\* locals to the next.  The result holds the locals at the return, the row
\* returned and the session the cache is left with for the file's folder.

\* a variant of RowBuilt whose test `if not meta` fails a mapping that holds
\* nothing but a filter
RowBuiltUnlessBare(path, where, edit_cache, parsed, s1, invoked, header, s3) ==
    [path |-> path, valid |-> TRUE, invoked |-> invoked, where |-> where,
     parsed |-> parsed, synced |-> s1.meta, header |-> header, meta |-> s3.meta,
     row |-> IF \A k \in MetaKeys \ {"filter"} : ~Truthy(Get(s3.meta, k)) THEN NoRow
             ELSE _build_result_row(path, s3.meta, where.obj_name, where.telescope,
                                    where.session_info, edit_cache),
     session |-> s3.session]

\* stages 5 to 7: the last sync has run (s3); `if not meta`, then the row
RowBuilt(path, where, edit_cache, parsed, s1, invoked, header, s3) ==
    [path |-> path, valid |-> TRUE, invoked |-> invoked, where |-> where,
     parsed |-> parsed, synced |-> s1.meta, header |-> header, meta |-> s3.meta,
     row |-> IF s3.meta = EmptyMeta THEN NoRow
             ELSE _build_result_row(path, s3.meta, where.obj_name, where.telescope,
                                    where.session_info, edit_cache),
     session |-> s3.session]

\* the header's findings are synced (s2), then meta.update and the last sync
HeaderSynced(path, where, edit_cache, parsed, s1, header, s2) ==
    RowBuilt(path, where, edit_cache, parsed, s1, TRUE, header,
             _sync_session_data(UpdateTruthy(s1.meta, s2.meta), s2.session))

\* the extractor has run: its mapping is cleaned and synced
HeaderRead(path, where, edit_cache, parsed, s1, header) ==
    HeaderSynced(path, where, edit_cache, parsed, s1, header,
                 _sync_session_data(
                     _cleanup_parsed_metadata(header, Name(path), where.session_info),
                     s1.session))

\* stage 4, the gatekeeper, on the mapping synced with the session (s1)
Gatekeeper(path, where, content, edit_cache, parsed, s1) ==
    IF /\ Suffix(Name(path)) \in DOMAIN FILE_TYPES
       /\ _needs_header_extraction(Suffix(Name(path)), s1.meta)
    THEN HeaderRead(path, where, edit_cache, parsed, s1,
                    Extractor(Suffix(Name(path)), content))
    ELSE RowBuilt(path, where, edit_cache, parsed, s1, FALSE, EmptyMeta,
                  _sync_session_data(s1.meta, s1.session))

\* stage 3: the file name is parsed and cleaned, then synced
FilenameParsed(path, where, content, edit_cache, session, parsed) ==
    Gatekeeper(path, where, content, edit_cache, parsed,
               _sync_session_data(parsed, session))

\* stage 2: validation, `return None` on failure
Validated(path, where, content, edit_cache, session) ==
    IF ~_is_valid_file(path, where.session_info)
    THEN [path |-> path, valid |-> FALSE, invoked |-> FALSE, where |-> where,
          parsed |-> EmptyMeta, synced |-> EmptyMeta, header |-> EmptyMeta,
          meta |-> EmptyMeta, row |-> NoRow, session |-> session]
    ELSE FilenameParsed(path, where, content, edit_cache, session,
             _cleanup_parsed_metadata(_get_metadata_from_filename(Name(path)),
                                      Name(path), where.session_info))

\* the session cached for a folder, created empty on first use
SessionOf(cache, session_folder) ==
    IF session_folder \in DOMAIN cache THEN cache[session_folder] ELSE SessionMetadata

_extract_metadata(path, root, content, cache, edit_cache) ==
    Validated(path, _get_metadata_from_path(path, root), content, edit_cache,
              SessionOf(cache, Parent(path)))

-----------------------------------------------------------------------------
(* The directory trees scanned.  Folder 0 of a tree is the scan root; a    *)
(* file of a listing is its name and a key of HeaderCards (or a file that  *)
(* cannot be read).                                                        *)

\* the number of folders below the scan root in a tree of the skeleton
NumFolders == 4

\* the skeleton: folder n hangs under folder ParentOf[n]
ParentOf == <<0, 1, 1, 2, 3, 4>>

\* the names folder n of the skeleton can bear
NameChoices == <<
    <<"M42", "2024-01-01 Home">>,
    <<"2000mm Telescope", "2024-02-07 flats">>,
    <<"2024-02-08 Backyard UVIR", "Darks">>,
    <<"2024-03-01 Remote", "sub">>,
    <<"20240401 Field Ha", "edits">>,
    <<"2024-06-01 Dome", "more">> >>

LightA ==
    [name |-> "Light_M42_123deg_67.0s_-273C_Bin1_PlayerOne_gain456_001.fits",
     content |-> "unreadable"]

LightB ==
    [name |-> "Light_M42_123deg_67.0s_-273C_Bin1_PlayerOne_UVIR_gain456_001.fits",
     content |-> "unreadable"]

Thumb == [name |-> "Light_M42_10s_thn.jpg", content |-> "exif bare"]

EditTif == [name |-> "This is a nice edit.tif", content |-> "unreadable"]

StackFit == [name |-> "This is a nice stacked result.fit", content |-> "unreadable"]

\* the listings folder n of the skeleton can have
ListingChoices == <<
    << <<>>, <<EditTif, LightA>> >>,
    << <<LightA>>, <<EditTif, Thumb, LightB>> >>,
    << <<LightB>>, <<EditTif, LightA>> >>,
    << <<LightA>>, <<StackFit, Thumb, LightB>> >>,
    << <<>>, <<StackFit>> >>,
    << <<LightB>>, <<EditTif>> >> >>

\* the scan roots: a plain folder, and a dated folder with files of its own
RootChoices == <<
    [name |-> "astro", files |-> <<>>],
    [name |-> "2024-05-05 Field", files |-> <<StackFit, LightA>>] >>

SkeletonTrees ==
    {[nodes |-> 0..NumFolders,
      parent |-> [n \in 1..NumFolders |-> ParentOf[n]],
      name |-> [n \in 0..NumFolders |->
                  IF n = 0 THEN RootChoices[r].name ELSE NameChoices[n][nm[n]]],
      files |-> [n \in 0..NumFolders |->
                  IF n = 0 THEN RootChoices[r].files ELSE ListingChoices[n][fl[n]]]] :
        r \in 1..Len(RootChoices),
        nm \in [1..NumFolders -> 1..2],
        fl \in [1..NumFolders -> 1..2]}

\* the most files of a session folder of a library tree
SessionFiles == 2

\* the session folders of the library trees
SessionNames ==
    {"2024-02-07 Backyard", "2024-02-07 Backyard UVIR", "2024-02-07 Backyard L-Extreme"}

\* the files of the session folder of a library tree
SessionFileChoices == {
    LightA,
    LightB,
    [name |-> "Light_Orion_180.0s_Bin1_294MC_L-Extreme_gain120_20250405-214232_-10C_90deg_001.fit",
     content |-> "fits bare"],
    [name |-> "Light_Orion_180.0s_Bin1_ZWO_294MC_gain120_20250405-214232_-10C_90deg_001.fit",
     content |-> "unreadable"],
    [name |-> "Light_Orion_180.0s_Bin1_294MC_gain120_20250405-214232_-10C_90deg_001.fit",
     content |-> "fits full"],
    [name |-> "Light_M42_Ha_002.fits", content |-> "fits full"],
    [name |-> "Light_M42_Ha_002.fits", content |-> "fits bare"],
    [name |-> "Light_M42_003.fits", content |-> "unreadable"],
    [name |-> "Light_M42_003.fits", content |-> "fits bare"],
    [name |-> "Light_M42_003.fits", content |-> "fits odd"],
    [name |-> "IMG_1234.jpg", content |-> "exif full"],
    [name |-> "IMG_1234.jpg", content |-> "exif bare"],
    [name |-> "Light_Flats_004.fits", content |-> "fits full"]}

\* a file whose name holds one filter keyword after Bin1, where the camera is
\* looked for, and another before it; its header cannot be read
KeywordClashFile == [name |-> "Light_UVIR_Bin1_Ha_001.fits", content |-> "unreadable"]

\* the listings of at most SessionFiles files, no name twice, and the listing
\* of the one file above
SessionListings ==
    {l \in UNION {[1..k -> SessionFileChoices] : k \in 1..SessionFiles} :
        \A a, b \in 1..Len(l) : l[a].name = l[b].name => a = b}
    \cup {<<KeywordClashFile>>}

\* a library as the program expects it: <object>/<telescope>/<session>/<files>
LibraryTrees ==
    {[nodes |-> 0..3,
      parent |-> <<0, 1, 2>>,
      name |-> [n \in 0..3 |-> <<"astro", "M42", "2000mm Telescope", s>>[n + 1]],
      files |-> [n \in 0..3 |-> IF n = 3 THEN l ELSE <<>>]] :
        s \in SessionNames, l \in SessionListings}

\* a dated folder under the root holding the frames of one burst; the last
\* frame is, or follows, the frame at which progress is due by the cadence
BurstTrees ==
    {[nodes |-> 0..1,
      parent |-> <<0>>,
      name |-> [n \in 0..1 |-> <<"astro", "2024-02-07 Backyard">>[n + 1]],
      files |-> [n \in 0..1 |->
                    IF n = 0 THEN <<>>
                    ELSE [j \in 1..k |-> [name |-> FrameName(j), content |-> "exif full"]]]] :
        k \in {BurstFiles - 1, BurstFiles}}

Trees == SkeletonTrees \cup LibraryTrees \cup BurstTrees

RECURSIVE PathOf(_, _)
\* the path of folder n
PathOf(t, n) ==
    IF n = 0 THEN <<t.name[0]>> ELSE Append(PathOf(t, t.parent[n]), t.name[n])

\* the sub-folders of folder n, in listing order
Children(t, n) == {c \in t.nodes \ {0} : t.parent[c] = n}

RECURSIVE WalkFrom(_, _), WalkEach(_, _)
\* os.walk, top down: folder n, then the walk of each of its sub-folders
WalkFrom(t, n) == <<n>> \o WalkEach(t, Children(t, n))

WalkEach(t, S) ==
    IF S = {} THEN <<>> ELSE WalkFrom(t, Least(S)) \o WalkEach(t, S \ {Least(S)})

os_walk(t) == WalkFrom(t, 0)

\* the content of the file at a path of the tree
ContentOf(t, path) ==
    LET n == CHOOSE m \in t.nodes : PathOf(t, m) = Parent(path)
        k == CHOOSE j \in 1..Len(t.files[n]) : t.files[n][j].name = Name(path)
    IN t.files[n][k].content

\* the file names of a listing
FileNames(listing) == [j \in 1..Len(listing) |-> listing[j].name]

-----------------------------------------------------------------------------
(* scan_folder and run_logic *)

\* idx % 50 == 0
ProgressEvery == 50

\* a variant of StoppedResult that hands back the rows gathered so far
StoppedResultPartial(rows) == rows

\* `return []` at a check of the stop flag
StoppedResult(rows) == <<>>

\* the candidates of one listing: the files with a known extension
Candidates(current_dir, files) ==
    SelectSeq([j \in 1..Len(files) |-> Append(current_dir, files[j])],
              LAMBDA file_path : Suffix(Name(file_path)) \in DOMAIN FILE_TYPES)

\* AstroScannerCore has an attribute extractor_counts
HasExtractorCounts == FALSE

\* the path run_logic takes once scan_folder has returned
RunLogicOutcome(stopped, rows) ==
    IF ~HasExtractorCounts THEN "error"
    ELSE IF stopped THEN "stopped"
    ELSE IF rows = <<>> THEN "no data"
    ELSE "success"

\* the locals of _extract_metadata before its first call
NoExtract ==
    [path |-> <<>>, valid |-> FALSE, invoked |-> FALSE,
     where |-> [obj_name |-> "", telescope |-> "", session_info |-> ""],
     parsed |-> EmptyMeta, synced |-> EmptyMeta, header |-> EmptyMeta,
     meta |-> EmptyMeta, row |-> NoRow, session |-> SessionMetadata]

\* a check of the stop flag is still ahead in scan_folder
CheckAhead == pc = "scan" /\ (walkQueue # <<>> \/ idx < Len(file_list))

\* the state in which run_logic has built the engine and calls scan_folder
InitScan(t) ==
    /\ tree = t
    /\ stop_requested = FALSE
    /\ session_cache = <<>>
    /\ folder_edit_cache = {}
    /\ walkQueue = os_walk(t)
    /\ file_list = <<>>
    /\ idx = 0
    /\ data_rows = <<>>
    /\ progress_calls = <<>>
    /\ pc = "scan"
    /\ data = <<>>
    /\ outcome = "none"
    /\ csv_rows = <<>>
    /\ stopSeen = "never"
    /\ last_extract = NoExtract

Init == \E t \in Trees : InitScan(t)

\* AstroScannerApp.request_stop, on the thread of the user interface
RequestStop ==
    /\ pc \in {"scan", "returned"}
    /\ ~stop_requested
    /\ stop_requested' = TRUE
    /\ stopSeen' = IF CheckAhead THEN "before a check"
                   ELSE IF pc = "scan" THEN "after the last check"
                   ELSE "after the return"
    /\ UNCHANGED <<tree, session_cache, folder_edit_cache, walkQueue, file_list, idx,
                   data_rows, progress_calls, pc, data, outcome, csv_rows, last_extract>>

\* one iteration of the walk loop of scan_folder
WalkDir ==
    /\ pc = "scan"
    /\ walkQueue # <<>>
    /\ IF stop_requested
       THEN /\ pc' = "returned"
            /\ data' = StoppedResult(data_rows)
            /\ UNCHANGED <<folder_edit_cache, walkQueue, file_list>>
       ELSE LET current_dir == PathOf(tree, Head(walkQueue))
                files == FileNames(tree.files[Head(walkQueue)])
                root == PathOf(tree, 0)
            IN /\ folder_edit_cache' =
                    IF _has_edits_in_folder(files, current_dir)
                    THEN _bubble_up_edit_status(folder_edit_cache, current_dir, root)
                    ELSE folder_edit_cache
               /\ file_list' = file_list \o Candidates(current_dir, files)
               /\ walkQueue' = Tail(walkQueue)
               /\ UNCHANGED <<pc, data>>
    /\ UNCHANGED <<tree, stop_requested, session_cache, idx, data_rows, progress_calls,
                   outcome, csv_rows, stopSeen, last_extract>>

\* a variant of ExtractBody that reports by the cadence alone, not on the
\* last file
ExtractBodyCadenceOnly(path, e, total_files) ==
    /\ last_extract' = e
    /\ session_cache' = (Parent(path) :> e.session) @@ session_cache
    /\ data_rows' = IF e.row # NoRow THEN Append(data_rows, e.row) ELSE data_rows
    /\ idx' = idx + 1
    /\ progress_calls' =
         IF (idx + 1) % ProgressEvery = 0
         THEN Append(progress_calls, <<idx + 1, total_files>>)
         ELSE progress_calls
    /\ UNCHANGED <<pc, data>>

\* a variant of ExtractBody that keeps the session under the folder above the
\* file's folder
ExtractBodyKeyedAbove(path, e, total_files) ==
    /\ last_extract' = e
    /\ session_cache' = (Parent(Parent(path)) :> e.session) @@ session_cache
    /\ data_rows' = IF e.row # NoRow THEN Append(data_rows, e.row) ELSE data_rows
    /\ idx' = idx + 1
    /\ progress_calls' =
         IF (idx + 1) % ProgressEvery = 0 \/ idx + 1 = total_files
         THEN Append(progress_calls, <<idx + 1, total_files>>)
         ELSE progress_calls
    /\ UNCHANGED <<pc, data>>

\* the body of the extraction loop for file number idx + 1, given what
\* _extract_metadata made of it
ExtractBody(path, e, total_files) ==
    /\ last_extract' = e
    /\ session_cache' = (Parent(path) :> e.session) @@ session_cache
    /\ data_rows' = IF e.row # NoRow THEN Append(data_rows, e.row) ELSE data_rows
    /\ idx' = idx + 1
    /\ progress_calls' =
         IF (idx + 1) % ProgressEvery = 0 \/ idx + 1 = total_files
         THEN Append(progress_calls, <<idx + 1, total_files>>)
         ELSE progress_calls
    /\ UNCHANGED <<pc, data>>

\* one iteration of the extraction loop of scan_folder
ExtractFile ==
    /\ pc = "scan"
    /\ walkQueue = <<>>
    /\ idx < Len(file_list)
    /\ IF stop_requested
       THEN /\ pc' = "returned"
            /\ data' = StoppedResult(data_rows)
            /\ UNCHANGED <<session_cache, idx, data_rows, progress_calls, last_extract>>
       ELSE ExtractBody(file_list[idx + 1],
                        _extract_metadata(file_list[idx + 1], PathOf(tree, 0),
                                          ContentOf(tree, file_list[idx + 1]),
                                          session_cache, folder_edit_cache),
                        Len(file_list))
    /\ UNCHANGED <<tree, stop_requested, folder_edit_cache, walkQueue, file_list,
                   outcome, csv_rows, stopSeen>>

\* `return data_rows` at the end of scan_folder
ScanReturn ==
    /\ pc = "scan"
    /\ walkQueue = <<>>
    /\ idx = Len(file_list)
    /\ pc' = "returned"
    /\ data' = data_rows
    /\ UNCHANGED <<tree, stop_requested, session_cache, folder_edit_cache, walkQueue,
                   file_list, idx, data_rows, progress_calls, outcome, csv_rows, stopSeen,
                   last_extract>>

\* run_logic from the return of scan_folder to its end
RunLogicEnd ==
    /\ pc = "returned"
    /\ pc' = "done"
    /\ outcome' = RunLogicOutcome(stop_requested, data)
    /\ csv_rows' = IF outcome' = "success" THEN data ELSE <<>>
    /\ UNCHANGED <<tree, stop_requested, session_cache, folder_edit_cache, walkQueue,
                   file_list, idx, data_rows, progress_calls, data, stopSeen, last_extract>>

Next == RequestStop \/ WalkDir \/ ExtractFile \/ ScanReturn \/ RunLogicEnd

Spec == Init /\ [][Next]_vars

----------------------------------------------------------------------------
(* Properties *)

\* scan_folder has returned
Returned == pc \in {"returned", "done"}

\* the paths of the records of a list
PathsOf(rows) == {rows[i].Path : i \in 1..Len(rows)}

\* the paths of all files of a tree
FilesOfTree(t) ==
    UNION {{Append(PathOf(t, n), t.files[n][k].name) : k \in 1..Len(t.files[n])} :
            n \in t.nodes}

\* the three conditions of validation, spelled out for a path and the session
\* derived from it
PassesValidation(path, session) ==
    /\ DATE_FOLDER_RE_match(session)
    /\ Tokens(Name(path))[1] \in {"Preview", "Light", "CRW", "IMG"}
    /\ Len(Tokens(Name(path))) > 1
    /\ ~(Tokens(Name(path))[Len(Tokens(Name(path)))] = "thn" /\ Suffix(Name(path)) = ".jpg")
    /\ \A i \in 1..Len(path) : \A j \in 1..Len(TextParts(path[i])) :
            \A keyword \in {"darks", "bias", "flats", "calibration"} :
                ~Contains(Lower(TextParts(path[i])[j]), keyword)

\* the candidates of a tree that pass validation
ValidCandidates(t) ==
    {path \in FilesOfTree(t) :
        /\ Suffix(Name(path)) \in {".fit", ".fits", ".cr2", ".dng", ".jpg", ".jpeg"}
        /\ PassesValidation(path, _get_metadata_from_path(path, PathOf(t, 0)).session_info)}

\* C1 as stated: whenever the stop flag became true between the start of
\* scan_folder and its return, scan_folder returns the empty list.
C1_StopAnyMomentReturnsEmpty ==
    (Returned /\ stopSeen \in {"before a check", "after the last check"}) => data = <<>>

\* C1 amended: when the stop flag becomes true while a check of the flag is
\* still ahead (before some directory of the walk or some candidate of the
\* extraction loop), scan_folder returns the empty list; when it becomes true
\* after the last check, scan_folder returns all the records it gathered.
C1_StopBeforeACheckReturnsEmpty ==
    /\ (Returned /\ stopSeen = "before a check") => data = <<>>
    /\ (Returned /\ stopSeen = "after the last check") => data = data_rows

\* a stop seen by a check of the extraction loop after records were gathered
C1_PartialRowsDiscarded ==
    /\ pc = "returned"
    /\ stopSeen = "before a check"
    /\ data_rows # <<>>
    /\ data = <<>>

\* C2: whatever the moment at which the stop flag is set, the list scan_folder
\* returns is empty or holds one record for every candidate that passes
\* validation, and nothing else.
C2_EmptyOrComplete ==
    pc = "returned" =>
        \/ data = <<>>
        \/ /\ PathsOf(data) = ValidCandidates(tree)
           /\ Len(data) = Cardinality(PathsOf(data))

\* the flag is set and the complete, non-empty list is returned
C2_StoppedYetComplete ==
    /\ pc = "returned"
    /\ stop_requested
    /\ data # <<>>
    /\ Cardinality(ValidCandidates(tree)) > 1

\* C3: a record is emitted for a candidate only if the session derived from
\* its path matches the date pattern, its name starts with an allowed prefix
\* and does not end with a disallowed suffix, and its path holds no
\* calibration keyword.
C3_RecordsOnlyForValidFiles ==
    \A i \in 1..Len(data_rows) :
        PassesValidation(data_rows[i].Path, data_rows[i].Session_Folder)

\* records were emitted, and a candidate that fails the calibration rule
\* alone was processed without one
C3_CalibrationFileSkipped ==
    /\ data_rows # <<>>
    /\ \E j \in 1..idx :
        /\ file_list[j] \notin PathsOf(data_rows)
        /\ Tokens(Name(file_list[j]))[1] = "Light"
        /\ Tokens(Name(file_list[j]))[Len(Tokens(Name(file_list[j])))] # "thn"
        /\ DATE_FOLDER_RE_match(
                _get_metadata_from_path(file_list[j], PathOf(tree, 0)).session_info)
        /\ HasCalibrationKeyword(file_list[j])

\* the file name holds a filter keyword as one of its inner tokens
FilenameKeywords(file_name) ==
    {i \in 1..Len(FILTER_KEYWORDS) :
        \E j \in 2..(Len(Tokens(file_name)) - 1) :
            Lower(Tokens(file_name)[j]) = FILTER_KEYWORDS[i][1]}

\* the Filter that C4 expects for a file name in a session folder
ExpectedFilter(file_name, session) ==
    IF FilenameKeywords(file_name) # {}
    THEN FILTER_KEYWORDS[Least(FilenameKeywords(file_name))][2]
    ELSE identify_filter(session)

\* C4 as stated: for a valid file whose header yields no filter, Filter is the
\* canonical name of the keyword the file name gives, and with no keyword in
\* the file name it is the classification of the session folder name.
C4_FilenameThenSessionFolder ==
    (last_extract.row # NoRow /\ ~Truthy(Get(last_extract.header, "filter"))) =>
        last_extract.row.Filter =
            ExpectedFilter(Name(last_extract.path), last_extract.where.session_info)

\* C5: the Edits Detected field of every record is "Yes" when the parent
\* folder or the grandparent folder of the file is in the taint map, and "No"
\* otherwise.
C5_EditsFromParentOrGrandparent ==
    \A i \in 1..Len(data_rows) :
        data_rows[i].Edits_Detected =
            IF \/ Parent(data_rows[i].Path) \in folder_edit_cache
               \/ Parent(Parent(data_rows[i].Path)) \in folder_edit_cache
            THEN "Yes" ELSE "No"

\* a record marked through its grandparent alone, and one not marked
C5_MarkedThroughGrandparent ==
    /\ \E i \in 1..Len(data_rows) :
        /\ data_rows[i].Edits_Detected = "Yes"
        /\ Parent(data_rows[i].Path) \notin folder_edit_cache
    /\ \E i \in 1..Len(data_rows) : data_rows[i].Edits_Detected = "No"

\* a listing holds an edit-indicator file
HoldsEditFile(listing) ==
    \E k \in 1..Len(listing) :
        \/ listing[k].name \in {"This is a nice edit.tif"}
        \/ listing[k].name \in {"This is a nice stacked result.fit"}

\* the path of a folder holds a calibration keyword
CalibrationNamed(t, n) == HasCalibrationKeyword(PathOf(t, n))

\* folder a is folder n or above it
RECURSIVE IsAncestorOrSelf(_, _, _)
IsAncestorOrSelf(t, a, n) ==
    a = n \/ (n # 0 /\ IsAncestorOrSelf(t, a, t.parent[n]))

\* the walk of scan_folder has visited every folder
WalkDone == walkQueue = <<>>

\* C6: after the walk, a folder S below the scan root whose path has no
\* calibration keyword and which directly holds an edit-indicator file is
\* marked, and so is each of its ancestors below the scan root; a sibling of
\* S with no edit-indicator file in itself or in a descendant is not marked.
C6_TaintGoesUpNotSideways ==
    WalkDone =>
        \A S \in tree.nodes \ {0} :
            (HoldsEditFile(tree.files[S]) /\ ~CalibrationNamed(tree, S)) =>
                /\ \A a \in tree.nodes \ {0} :
                        IsAncestorOrSelf(tree, a, S) => PathOf(tree, a) \in folder_edit_cache
                /\ \A b \in tree.nodes \ {0, S} :
                        (/\ tree.parent[b] = tree.parent[S]
                         /\ \A d \in tree.nodes :
                                IsAncestorOrSelf(tree, b, d) => ~HoldsEditFile(tree.files[d]))
                        => PathOf(tree, b) \notin folder_edit_cache

\* a folder two levels below the object folder is marked with its two
\* ancestors, and a sibling of its parent is clean and not marked
C6_DeepEditCleanSibling ==
    /\ WalkDone
    /\ \E S, b \in tree.nodes \ {0} :
        /\ HoldsEditFile(tree.files[S]) /\ ~CalibrationNamed(tree, S)
        /\ Len(PathOf(tree, S)) = 4
        /\ ~HoldsEditFile(tree.files[tree.parent[S]])
        /\ PathOf(tree, tree.parent[S]) \in folder_edit_cache
        /\ b # tree.parent[S] /\ tree.parent[b] = tree.parent[tree.parent[S]]
        /\ PathOf(tree, b) \notin folder_edit_cache
        /\ tree.files[b] # <<>>

\* C7: a folder whose path holds a calibration keyword is not marked on
\* account of the edit-indicator files it holds; yet after the walk, when a
\* sibling without a calibration keyword holds an edit-indicator file, the
\* parent the two share is marked, unless it is the scan root.
C7_CalibrationFolderExempt ==
    /\ \A marked \in folder_edit_cache : ~HasCalibrationKeyword(marked)
    /\ WalkDone =>
        \A c, b \in tree.nodes \ {0} :
            (/\ b # c /\ tree.parent[b] = tree.parent[c] /\ tree.parent[c] # 0
             /\ HoldsEditFile(tree.files[c]) /\ HoldsEditFile(tree.files[b])
             /\ CalibrationNamed(tree, c) /\ ~CalibrationNamed(tree, b))
            => PathOf(tree, tree.parent[c]) \in folder_edit_cache

\* a calibration folder with an edit file stays unmarked while its sibling
\* has marked their parent, which holds no edit file itself
C7_ParentMarkedBySibling ==
    /\ WalkDone
    /\ \E c, b \in tree.nodes \ {0} :
        /\ CalibrationNamed(tree, c) /\ HoldsEditFile(tree.files[c])
        /\ PathOf(tree, c) \notin folder_edit_cache
        /\ b # c /\ tree.parent[b] = tree.parent[c] /\ tree.parent[c] # 0
        /\ PathOf(tree, b) \in folder_edit_cache
        /\ ~HoldsEditFile(tree.files[tree.parent[c]])
        /\ PathOf(tree, tree.parent[c]) \in folder_edit_cache

\* the value C8 expects in a field: what the sources yielded, or the default
ValueOrDefault(meta, key, default) ==
    IF Truthy(Get(meta, key)) THEN meta[key] ELSE default

\* C8 as stated: in every record a field for which no source yielded a value
\* holds its default: 'Unknown' for Object, the sentinel for Filter, '1' for
\* Bin, '0' for Exposure, the empty string for Camera, Gain, Temp, Rotation
\* and Timestamp.
C8_FieldDefaults ==
    last_extract.row # NoRow =>
        /\ last_extract.row.Object =
                IF last_extract.where.obj_name = "" THEN "Unknown"
                ELSE last_extract.where.obj_name
        /\ last_extract.row.Filter =
                ValueOrDefault(last_extract.meta, "filter", "Broadband/Unknown")
        /\ last_extract.row.Bin = ValueOrDefault(last_extract.meta, "bin", "1")
        /\ last_extract.row.Exposure = ValueOrDefault(last_extract.meta, "exposure", "0")
        /\ last_extract.row.Camera = ValueOrDefault(last_extract.meta, "camera", "")
        /\ last_extract.row.Gain = ValueOrDefault(last_extract.meta, "gain", "")
        /\ last_extract.row.Temp = ValueOrDefault(last_extract.meta, "temperature", "")
        /\ last_extract.row.Rotation = ValueOrDefault(last_extract.meta, "rotation", "")
        /\ last_extract.row.Timestamp = ValueOrDefault(last_extract.meta, "timestamp", "")

\* the parts of the path last decomposed, relative to the scan root
LastRelParts == SubSeq(last_extract.path, 2, Len(last_extract.path))

\* C9: for a file at <object>/<telescope>/<date-named session>/<file> under
\* the root, decompose returns the first segment as object, the date-named
\* segment as session and the segment before it as telescope; for a file at
\* <object>/<date-named session>/<file> the telescope is 'missing info'.
C9_DecomposeObjectTelescopeSession ==
    /\ (Len(LastRelParts) = 4 /\ DATE_FOLDER_RE_match(LastRelParts[3])) =>
            last_extract.where = [obj_name |-> LastRelParts[1],
                                  telescope |-> LastRelParts[2],
                                  session_info |-> LastRelParts[3]]
    /\ (Len(LastRelParts) = 3 /\ DATE_FOLDER_RE_match(LastRelParts[2])) =>
            last_extract.where = [obj_name |-> LastRelParts[1],
                                  telescope |-> "missing info",
                                  session_info |-> LastRelParts[2]]

\* the path of the test, decomposed
C9_LibraryPathDecomposed ==
    /\ Len(LastRelParts) = 4
    /\ LastRelParts[1] = "M42"
    /\ last_extract.where = [obj_name |-> "M42", telescope |-> "2000mm Telescope",
                             session_info |-> "2024-02-07 Backyard UVIR"]

\* C10 as stated: a run ends 'stopped' when a stop was requested, 'no data'
\* when the scan completed with no record, and in success when there is a
\* record; the report is written in the success outcome and in no other.
C10_DistinctOutcomes ==
    pc = "done" =>
        /\ outcome = IF stop_requested THEN "stopped"
                     ELSE IF data = <<>> THEN "no data"
                     ELSE "success"
        /\ csv_rows = IF outcome = "success" THEN data ELSE <<>>

(***************************************************************************)
(* The filename strategy alone, on names built from field values           *)
(***************************************************************************)

\* the most tokens that stand before the strict pattern in a built name
MaxPrefix == 2

\* the tokens that may stand before the pattern
PrefixTokens == {"Light", "M42", "10s"}

Prefixes == UNION {[1..n -> PrefixTokens] : n \in 1..MaxPrefix}

\* the values substituted into the pattern; filter None builds a name without
\* the optional group
StrictFieldValues ==
    [exposure : {"67.0", "180.0", "10"},
     bin : {"1"},
     camera : {"294MC", "gain120", "L-Extreme"},
     filter : {None, "L-Extreme", "Ha", "gain456"},
     gain : {"456", "120"},
     timestamp : {"20250405-214232"},
     temperature : {"-273", "-10"},
     rotation : {"123", "90"}]

\* <prefix>_<exposure>s_Bin<bin>_<camera>[_<filter>]_gain<gain>_<timestamp>_
\* <temperature>C_<rotation>deg_0001, as its tokens
StrictName(prefix, f) ==
    prefix \o <<f.exposure \o "s", "Bin" \o f.bin, f.camera>> \o
    (IF f.filter = None THEN <<>> ELSE <<f.filter>>) \o
    <<"gain" \o f.gain, f.timestamp, f.temperature \o "C", f.rotation \o "deg", "0001">>

\* a name has been built; the variables of the scan are at rest, `tree` holds
\* the field values and the tokens of the name
ParseInit ==
    /\ \E f \in StrictFieldValues, prefix \in Prefixes :
            tree = [fields |-> f, tokens |-> StrictName(prefix, f)]
    /\ stop_requested = FALSE
    /\ session_cache = <<>>
    /\ folder_edit_cache = {}
    /\ walkQueue = <<>>
    /\ file_list = <<>>
    /\ idx = 0
    /\ data_rows = <<>>
    /\ progress_calls = <<>>
    /\ pc = "built"
    /\ data = <<>>
    /\ outcome = "none"
    /\ csv_rows = <<>>
    /\ stopSeen = "never"
    /\ last_extract = NoExtract

\* _get_metadata_from_filename on the built name
ParseName ==
    /\ pc = "built"
    /\ pc' = "parsed"
    /\ last_extract' = [NoExtract EXCEPT !.parsed = FilenameMetadata(tree.tokens)]
    /\ UNCHANGED <<tree, stop_requested, session_cache, folder_edit_cache, walkQueue,
                   file_list, idx, data_rows, progress_calls, data, outcome, csv_rows,
                   stopSeen>>

ParseNext == ParseName

ParseSpec == ParseInit /\ [][ParseNext]_vars

(***************************************************************************)
(* _sync_session_data alone, on mappings and sessions of all shapes        *)
(***************************************************************************)

\* the most applications of the sync to one mapping and session
SyncApplications == 2

\* the mappings: a tracked field is missing, None, empty or set; of the other
\* fields bin is missing or set
GivenMetas ==
    {[k \in MetaKeys |->
        IF k \in Range(SessionFields) THEN tracked[k]
        ELSE IF k = "bin" THEN other ELSE Absent] :
        tracked \in [Range(SessionFields) -> {Absent, None, "", "120"}],
        other \in {Absent, "1"}}

\* the sessions: a field is None, as SessionMetadata() leaves it, or set
GivenSessions == [Range(SessionFields) -> {None, "456"}]

\* a mapping and a session are given; the variables of the scan are at rest,
\* `tree` holds the two as given and as the sync has left them
SyncInit ==
    /\ \E m \in GivenMetas, sess \in GivenSessions :
            tree = [given_meta |-> m, given_session |-> sess,
                    meta |-> m, session |-> sess]
    /\ stop_requested = FALSE
    /\ session_cache = <<>>
    /\ folder_edit_cache = {}
    /\ walkQueue = <<>>
    /\ file_list = <<>>
    /\ idx = 0
    /\ data_rows = <<>>
    /\ progress_calls = <<>>
    /\ pc = "sync"
    /\ data = <<>>
    /\ outcome = "none"
    /\ csv_rows = <<>>
    /\ stopSeen = "never"
    /\ last_extract = NoExtract

\* one call of _sync_session_data(meta, session)
ApplySync ==
    /\ pc = "sync"
    /\ idx < SyncApplications
    /\ idx' = idx + 1
    /\ tree' = [tree EXCEPT
                    !.meta = _sync_session_data(tree.meta, tree.session).meta,
                    !.session = _sync_session_data(tree.meta, tree.session).session]
    /\ UNCHANGED <<stop_requested, session_cache, folder_edit_cache, walkQueue,
                   file_list, data_rows, progress_calls, pc, data, outcome, csv_rows,
                   stopSeen, last_extract>>

SyncNext == ApplySync

SyncSpec == SyncInit /\ [][SyncNext]_vars

\* the candidates after which progress is due, among the first n of total
ProgressDue(n, total) == {i \in 1..n : i % 50 = 0 \/ i = total}

\* C11: the progress callback has been called with (i, total) exactly for the
\* processed candidates i that are a multiple of 50 or the last one, total
\* being the number of candidates enumerated, in increasing order of i; so a
\* completed scan with candidates ends on progress(total, total), and a scan
\* that saw the stop flag makes no further call.
C11_ProgressCadence ==
    /\ Len(progress_calls) = Cardinality(ProgressDue(idx, Len(file_list)))
    /\ \A k \in 1..Len(progress_calls) :
        /\ progress_calls[k][1] \in ProgressDue(idx, Len(file_list))
        /\ progress_calls[k][2] = Len(file_list)
        /\ k > 1 => progress_calls[k - 1][1] < progress_calls[k][1]
    /\ (Returned /\ data = data_rows /\ idx = Len(file_list) /\ idx >= 1) =>
            progress_calls[Len(progress_calls)] = <<Len(file_list), Len(file_list)>>

\* a completed scan of 51 candidates called progress(50, 51), then (51, 51)
C11_CadenceThenLast ==
    /\ pc = "returned"
    /\ progress_calls = <<<<50, 51>>, <<51, 51>>>>

\* C12: the filename parser returns, for a name built by substituting field
\* values into the strict pattern, exposure, bin, camera, gain, timestamp,
\* temperature and rotation equal to the substituted values, and filter too
\* when the name was built with one.
C12_StrictRoundTrip ==
    pc = "parsed" =>
        \A k \in MetaKeys :
            (k # "filter" \/ tree.fields.filter # None) =>
                last_extract.parsed[k] = tree.fields[k]

\* a name built with a camera and a filter that both read like a gain token
\* was parsed back to its values
C12_GainLikeCameraAndFilter ==
    /\ pc = "parsed"
    /\ tree.fields.camera = "gain120"
    /\ tree.fields.filter = "gain456"
    /\ tree.fields.gain = "120"
    /\ last_extract.parsed.camera = "gain120"
    /\ last_extract.parsed.filter = "gain456"
    /\ last_extract.parsed.gain = "120"

\* C13: a field of a session cache entry that holds a non-empty value holds a
\* non-empty value after every step of the scan: the entry stays, and the
\* field is replaced, if at all, by another non-empty value.
C13_SessionFieldNeverCleared ==
    [][\A folder \in DOMAIN session_cache : \A f \in Range(SessionFields) :
            Truthy(session_cache[folder][f]) =>
                /\ folder \in DOMAIN session_cache'
                /\ Truthy(session_cache'[folder][f])]_vars

\* a file whose name gave no value for a field pulled the value of an earlier
\* file from the session, and the session now holds another non-empty value
C13_ReplacedByAnotherValue ==
    /\ last_extract.valid
    /\ \E f \in Range(SessionFields) :
        /\ ~Truthy(Get(last_extract.parsed, f))
        /\ Truthy(last_extract.synced[f])
        /\ Truthy(session_cache[Parent(last_extract.path)][f])
        /\ session_cache[Parent(last_extract.path)][f] # last_extract.synced[f]

\* C14: when the header extractor was invoked for a file, every field for
\* which the cleaned filename mapping holds a non-empty value holds that value
\* in the working metadata from which the record is built; a header value is
\* used only for a field the filename left empty.
C14_FilenameValueKept ==
    (last_extract.valid /\ last_extract.invoked) =>
        \A k \in MetaKeys :
            Truthy(Get(last_extract.parsed, k)) =>
                last_extract.meta[k] = last_extract.parsed[k]

\* C15: the filter of a session cache entry is never the sentinel
\* 'Broadband/Unknown'; a filter classified from the session folder name is
\* cached only when it is a canonical filter other than the sentinel.
C15_SentinelNeverCached ==
    \A folder \in DOMAIN session_cache :
        session_cache[folder]["filter"] # BroadbandUnknown

\* the column of the record that holds a tracked field, and its default
RecordColumn ==
    [camera |-> "Camera", filter |-> "Filter", gain |-> "Gain",
     exposure |-> "Exposure", temperature |-> "Temp"]

ColumnDefault ==
    [camera |-> "", filter |-> BroadbandUnknown, gain |-> "", exposure |-> "0",
     temperature |-> ""]

\* the file name by itself, cleaned without the help of a folder name, gives
\* a value for the field (the sentinel is no value)
OwnNameYields(file_name, f) ==
    /\ Truthy(Get(_cleanup_parsed_metadata(_get_metadata_from_filename(file_name),
                                           file_name, ""), f))
    /\ _cleanup_parsed_metadata(_get_metadata_from_filename(file_name),
                                file_name, "")[f] # BroadbandUnknown

\* the header that was read gives a value for the field
OwnHeaderYields(e, f) == e.invoked /\ Truthy(Get(e.header, f))

\* what the session of a folder held for a field before a file was processed
HeldBefore(folder, f) ==
    IF folder \in DOMAIN session_cache THEN session_cache[folder][f] ELSE None

\* C16: when a valid file is processed for which neither its own name nor its
\* own header gives a tracked field (and, for the filter, its folder name
\* names none), the record holds for the field the value the session of the
\* folder held from the earlier files, and the empty value or the default
\* only when the session held none.
C16_GapFilledFromSession ==
    [][(idx' = idx + 1 /\ last_extract'.valid /\ last_extract'.row # NoRow) =>
        \A f \in Range(SessionFields) :
            (/\ ~OwnNameYields(Name(last_extract'.path), f)
             /\ ~OwnHeaderYields(last_extract', f)
             /\ identify_filter(last_extract'.where.session_info) = BroadbandUnknown) =>
                IF Truthy(HeldBefore(Parent(last_extract'.path), f))
                THEN last_extract'.row[RecordColumn[f]] =
                        HeldBefore(Parent(last_extract'.path), f)
                ELSE \/ ~Truthy(last_extract'.row[RecordColumn[f]])
                     \/ last_extract'.row[RecordColumn[f]] = ColumnDefault[f]]_vars

\* the mapping and the session that stages 3 and 5 alone leave: the cleaned
\* filename mapping synced with the session, and synced once more
WithoutExtraction(parsed, session) ==
    _sync_session_data(_sync_session_data(parsed, session).meta,
                       _sync_session_data(parsed, session).session)

\* C17: when the extractor is invoked for a file and returns the empty
\* mapping, the file yields its record, and its working metadata and the
\* session of its folder are what they would be had the extractor not been
\* invoked.
C17_FailedExtractionChangesNothing ==
    [][(/\ idx' = idx + 1
        /\ last_extract'.valid
        /\ last_extract'.invoked
        /\ last_extract'.header = EmptyMeta) =>
            /\ last_extract'.row # NoRow
            /\ last_extract'.meta =
                WithoutExtraction(last_extract'.parsed,
                    SessionOf(session_cache, Parent(last_extract'.path))).meta
            /\ last_extract'.session =
                WithoutExtraction(last_extract'.parsed,
                    SessionOf(session_cache, Parent(last_extract'.path))).session]_vars

\* C18: the taint map only grows, and after every propagation step a marked
\* folder whose parent is not the scan root has a marked parent; the scan
\* root itself is never marked.
C18_TaintMonotoneUpwardClosed ==
    /\ [](\A marked \in folder_edit_cache :
            /\ marked # PathOf(tree, 0)
            /\ Parent(marked) # PathOf(tree, 0) => Parent(marked) \in folder_edit_cache)
    /\ [][folder_edit_cache \subseteq folder_edit_cache']_vars

\* the walk is over, a folder two or more levels below the root is marked
\* with its parent, and a later step of the walk left the marks in place
C18_MarkedChainBelowRoot ==
    /\ WalkDone
    /\ PathOf(tree, 0) \notin folder_edit_cache
    /\ \E marked \in folder_edit_cache :
        /\ Len(marked) >= Len(PathOf(tree, 0)) + 2
        /\ Parent(marked) \in folder_edit_cache
        /\ \E n \in tree.nodes : n # 0 /\ PathOf(tree, n) \notin folder_edit_cache

\* the name of the folder itself holds a calibration keyword
CalibrationOwnName(t, n) == HasCalibrationKeyword(<<t.name[n]>>)

\* C19 as stated: a folder whose name holds a calibration keyword is marked by
\* propagation when a folder below it triggers tainting, i.e. after the walk
\* it is marked whenever a folder below it, itself not calibration-named,
\* holds an edit-indicator file.
C19_CalibrationFolderMarkedByDescendant ==
    WalkDone =>
        \A c, d \in tree.nodes \ {0} :
            (/\ c # d
             /\ CalibrationOwnName(tree, c)
             /\ IsAncestorOrSelf(tree, c, d)
             /\ ~CalibrationOwnName(tree, d)
             /\ HoldsEditFile(tree.files[d]))
            => PathOf(tree, c) \in folder_edit_cache

\* C19 (amended): a folder whose name holds a calibration keyword is never
\* marked, and neither is any folder below it: the keyword is in the path of
\* each of them, so none of them triggers tainting.
C19_NothingMarkedUnderCalibration ==
    \/ folder_edit_cache = {}
    \/ \A d \in tree.nodes :
            PathOf(tree, d) \in folder_edit_cache =>
                \A c \in tree.nodes :
                    IsAncestorOrSelf(tree, c, d) => ~CalibrationOwnName(tree, c)

\* the walk is over; a folder named for calibration has below it a folder,
\* not so named, that holds an edit-indicator file, and neither is marked
\* although another folder of the tree is
C19_EditBelowCalibrationUnmarked ==
    /\ WalkDone
    /\ folder_edit_cache # {}
    /\ \E c, d \in tree.nodes \ {0} :
        /\ c # d
        /\ CalibrationOwnName(tree, c)
        /\ IsAncestorOrSelf(tree, c, d)
        /\ ~CalibrationOwnName(tree, d)
        /\ HoldsEditFile(tree.files[d])
        /\ PathOf(tree, c) \notin folder_edit_cache
        /\ PathOf(tree, d) \notin folder_edit_cache

\* C20: for a valid file the header extractor of its category is invoked if
\* and only if, in the working metadata after parsing the file name, cleaning
\* and the first sync with the session, at least one field of the required
\* set of the category is still empty.
C20_InvokedIffRequiredFieldEmpty ==
    last_extract.valid =>
        (last_extract.invoked <=>
            \E field \in REQUIRED_METADATA_FIELDS[FILE_TYPES[Suffix(Name(last_extract.path))]] :
                ~Truthy(Get(last_extract.synced, field)))

\* a file whose name gives no camera got one from the session, which left no
\* required field empty: the extractor was not invoked
C20_SessionFillsSoNoExtraction ==
    /\ last_extract.valid
    /\ ~last_extract.invoked
    /\ ~Truthy(Get(last_extract.parsed, "camera"))
    /\ Truthy(Get(last_extract.synced, "camera"))

\* C21: the search for the session never takes the object segment: for a
\* file with two or more folders below the root of which only the first
\* matches the date pattern, the session is the name of the folder that holds
\* the file and the telescope is 'missing info'.
C21_ObjectSegmentNeverSession ==
    (/\ Len(LastRelParts) >= 3
     /\ DATE_FOLDER_RE_match(LastRelParts[1])
     /\ \A i \in 2..(Len(LastRelParts) - 1) : ~DATE_FOLDER_RE_match(LastRelParts[i])) =>
        /\ last_extract.where.session_info = LastRelParts[Len(LastRelParts) - 1]
        /\ last_extract.where.telescope = "missing info"

\* C22: for a file with fewer than two folders between it and the root (it
\* lies in the root or in a folder of the root), decompose returns the empty
\* object and the telescope 'missing info'.
C22_ShallowFileHasNoObject ==
    (last_extract.path # <<>> /\ Len(LastRelParts) <= 2) =>
        /\ last_extract.where.obj_name = ""
        /\ last_extract.where.telescope = "missing info"

\* C23: after sync(meta, session), once or more often, a tracked field for
\* which the given mapping held a non-empty value holds that value in the
\* mapping and in the session, and any other tracked field holds the given
\* session's value in both; so the two agree on every tracked field, the other
\* fields of the mapping are as given, and a second sync changes nothing.
C23_SyncAgreesAndIsIdempotent ==
    (pc = "sync" /\ idx >= 1) =>
        /\ \A f \in Range(SessionFields) :
            /\ tree.meta[f] = tree.session[f]
            /\ tree.session[f] =
                IF tree.given_meta[f] \notin {Absent, None, ""}
                THEN tree.given_meta[f] ELSE tree.given_session[f]
        /\ \A k \in MetaKeys \ Range(SessionFields) : tree.meta[k] = tree.given_meta[k]

\* the sync ran twice on a mapping that held a gain but no camera and a
\* session that held both: the gain of the mapping went to the session, the
\* camera of the session to the mapping
C23_SyncedBothWays ==
    /\ pc = "sync"
    /\ idx = 2
    /\ tree.given_meta["gain"] = "120"
    /\ tree.given_session["gain"] = "456"
    /\ tree.given_meta["camera"] = Absent
    /\ tree.given_session["camera"] = "456"
    /\ tree.given_meta["bin"] = "1"
    /\ tree.session["gain"] = "120"
    /\ tree.meta["camera"] = "456"

\* the candidate passes validation
ValidCandidate(path) ==
    PassesValidation(path, _get_metadata_from_path(path, PathOf(tree, 0)).session_info)

\* C24: a candidate that passes validation is never dropped at the test of
\* the working metadata, and a scan that has processed every candidate holds
\* one record for each candidate that passes validation, in the order of the
\* candidates, so with distinct paths.
C24_OneRecordPerValidInOrder ==
    /\ last_extract.valid => last_extract.row # NoRow
    /\ (pc = "returned" /\ WalkDone /\ idx = Len(file_list)) =>
        /\ [i \in 1..Len(data_rows) |-> data_rows[i].Path] =
                SelectSeq(file_list, ValidCandidate)
        /\ \A i, j \in 1..Len(data_rows) :
                data_rows[i].Path = data_rows[j].Path => i = j

\* a completed scan holds two or more records, in the order of their
\* candidates, and none for a candidate that came before the last of them
C24_RecordsAroundSkippedCandidate ==
    /\ pc = "returned"
    /\ WalkDone
    /\ idx = Len(file_list)
    /\ Len(data_rows) >= 2
    /\ \E j, k \in 1..Len(file_list) :
        /\ j < k
        /\ file_list[j] \notin PathsOf(data_rows)
        /\ file_list[k] = data_rows[Len(data_rows)].Path

\* the session cache with no entry but that of one folder
OwnEntry(cache, folder) == [f \in DOMAIN cache \cap {folder} |-> cache[f]]

\* the marks that the files of the folder of a file cause by themselves
OwnTaint(path) ==
    IF _has_edits_in_folder(
            FileNames(tree.files[CHOOSE n \in tree.nodes : PathOf(tree, n) = Parent(path)]),
            Parent(path))
    THEN _bubble_up_edit_status({}, Parent(path), PathOf(tree, 0))
    ELSE {}

\* processing a file leaves the taint map and the cache entries of all
\* folders but the file's own as they are
ExtractionFrame ==
    /\ folder_edit_cache' = folder_edit_cache
    /\ DOMAIN session_cache' = DOMAIN session_cache \cup {Parent(last_extract'.path)}
    /\ \A folder \in DOMAIN session_cache :
            folder # Parent(last_extract'.path) =>
                session_cache'[folder] = session_cache[folder]

\* C25 as stated: processing a file touches no cache entry but that of the
\* file's folder and leaves the taint map alone, and the record is the one
\* the file would get were the files of all other folders not there: with
\* the cache entry of its folder alone and the marks its own folder causes.
C25_RecordIndependentOfOtherFolders ==
    [][idx' = idx + 1 =>
        /\ ExtractionFrame
        /\ last_extract'.row =
            _extract_metadata(last_extract'.path, PathOf(tree, 0),
                              ContentOf(tree, last_extract'.path),
                              OwnEntry(session_cache, Parent(last_extract'.path)),
                              OwnTaint(last_extract'.path)).row]_vars

\* C25 (amended): processing a file touches no cache entry but that of the
\* file's folder and leaves the taint map alone, and the record is the one
\* the file gets with the cache entry of its folder alone and the taint map
\* as the walk left it: files of other folders bear on the record through the
\* taint map only.
C25_OtherFoldersOnlyThroughTaint ==
    [][idx' = idx + 1 =>
        /\ ExtractionFrame
        /\ last_extract'.row =
            _extract_metadata(last_extract'.path, PathOf(tree, 0),
                              ContentOf(tree, last_extract'.path),
                              OwnEntry(session_cache, Parent(last_extract'.path)),
                              folder_edit_cache).row]_vars

\* a record was built while the cache held the entry of another folder, with
\* Edits Detected 'Yes' although the file's own folder holds no edit file
C25_EditsFromAnotherFolder ==
    /\ last_extract.row # NoRow
    /\ last_extract.row.Edits_Detected = "Yes"
    /\ OwnTaint(last_extract.path) = {}
    /\ \E folder \in DOMAIN session_cache : folder # Parent(last_extract.path)

\* C26: a marked folder is a folder below the scan root that holds, itself
\* or in a folder below it, an edit-indicator file in a folder whose path has
\* no calibration keyword; edit-indicator files in the scan root itself mark
\* nothing.
C26_NoSpuriousTaint ==
    \/ folder_edit_cache = {}
    \/ \A marked \in folder_edit_cache :
        \E d \in tree.nodes \ {0} :
            /\ HoldsEditFile(tree.files[d])
            /\ ~CalibrationNamed(tree, d)
            /\ \E a \in tree.nodes \ {0} :
                /\ IsAncestorOrSelf(tree, a, d)
                /\ PathOf(tree, a) = marked

\* the walk is over; the scan root holds an edit-indicator file and is not
\* marked, a folder below it is marked, and another that holds files is not
C26_RootEditMarksNothing ==
    /\ WalkDone
    /\ HoldsEditFile(tree.files[0])
    /\ PathOf(tree, 0) \notin folder_edit_cache
    /\ folder_edit_cache # {}
    /\ \E n \in tree.nodes \ {0} :
        /\ tree.files[n] # <<>>
        /\ PathOf(tree, n) \notin folder_edit_cache

\* C27: when a folder S is marked and its parent P is not the scan root, the
\* record of every file that lies directly in another folder of P has Edits
\* Detected 'Yes', whether or not that folder holds an edit-indicator file.
C27_SiblingRecordsMarked ==
    \/ folder_edit_cache = {}
    \/ \A i \in 1..Len(data_rows) :
        (/\ Parent(Parent(data_rows[i].Path)) # PathOf(tree, 0)
         /\ \E S \in folder_edit_cache :
                /\ S # Parent(data_rows[i].Path)
                /\ Parent(S) = Parent(Parent(data_rows[i].Path)))
        => data_rows[i].Edits_Detected = "Yes"

\* the record of a file in a folder that is not marked and holds no
\* edit-indicator file has Edits Detected 'Yes': a sibling folder is marked,
\* and their parent is not the scan root
C27_CleanSiblingReportsEdits ==
    \E i \in 1..Len(data_rows) :
        /\ data_rows[i].Edits_Detected = "Yes"
        /\ Parent(data_rows[i].Path) \notin folder_edit_cache
        /\ OwnTaint(data_rows[i].Path) = {}
        /\ Parent(Parent(data_rows[i].Path)) # PathOf(tree, 0)
        /\ \E S \in folder_edit_cache :
            /\ S # Parent(data_rows[i].Path)
            /\ Parent(S) = Parent(Parent(data_rows[i].Path))

\* C28: for a valid file the filter is non-empty in the cleaned filename
\* mapping, in the mapping handed to the gatekeeper and in the cleaned header
\* mapping; so when the extractor is invoked, a required field other than the
\* filter is empty.
C28_FilterNeverMissing ==
    last_extract.valid =>
        /\ Truthy(Get(last_extract.parsed, "filter"))
        /\ Truthy(Get(last_extract.synced, "filter"))
        /\ last_extract.invoked =>
            /\ Truthy(Get(_cleanup_parsed_metadata(last_extract.header,
                                                   Name(last_extract.path),
                                                   last_extract.where.session_info),
                          "filter"))
            /\ \E field \in REQUIRED_METADATA_FIELDS[
                                FILE_TYPES[Suffix(Name(last_extract.path))]] \ {"filter"} :
                    ~Truthy(Get(last_extract.synced, field))

\* a FITS file whose every required field but the filter was known, and whose
\* filter was the sentinel, did not have its header read
C28_SentinelAloneNoExtraction ==
    /\ last_extract.valid
    /\ ~last_extract.invoked
    /\ Suffix(Name(last_extract.path)) \in {".fit", ".fits"}
    /\ last_extract.synced["filter"] = BroadbandUnknown

\* the required fields of the category of a file
RequiredOf(path) == REQUIRED_METADATA_FIELDS[FILE_TYPES[Suffix(Name(path))]]

\* C29: when the session of a folder holds a non-empty value for every
\* required field of a category, a valid file of that category processed next
\* in the folder does not have its header read; the fields stay non-empty, so
\* this holds for every later file of the folder.
C29_FullSessionStopsExtraction ==
    [][(/\ idx' = idx + 1
        /\ last_extract'.valid
        /\ Parent(last_extract'.path) \in DOMAIN session_cache
        /\ \A f \in RequiredOf(last_extract'.path) :
                /\ f \in Range(SessionFields)
                /\ Truthy(session_cache[Parent(last_extract'.path)][f]))
        => /\ ~last_extract'.invoked
           /\ \A f \in RequiredOf(last_extract'.path) :
                Truthy(session_cache'[Parent(last_extract'.path)][f])]_vars

\* a FITS file whose name gives neither gain nor temperature was processed
\* after another file of its folder and its header was not read
C29_LaterFileServedBySession ==
    /\ idx >= 2
    /\ last_extract.valid
    /\ ~last_extract.invoked
    /\ Suffix(Name(last_extract.path)) = ".fits"
    /\ ~Truthy(Get(last_extract.parsed, "gain"))
    /\ ~Truthy(Get(last_extract.parsed, "temperature"))
    /\ Parent(file_list[idx - 1]) = Parent(last_extract.path)

\* C30: the Filter of every record is a canonical name of the vocabulary or
\* the sentinel 'Broadband/Unknown', never a raw token of a file name or of a
\* header and never empty.
C30_FilterCanonicalOrSentinel ==
    \A i \in 1..Len(data_rows) :
        data_rows[i].Filter \in FilterValues \cup {BroadbandUnknown}

\* a record was made for a file whose name carries a filter token that is no
\* canonical name
C30_RawTokenClassified ==
    /\ last_extract.valid
    /\ last_extract.row # NoRow
    /\ Truthy(Get(_get_metadata_from_filename(Name(last_extract.path)), "filter"))
    /\ Get(_get_metadata_from_filename(Name(last_extract.path)), "filter")
            \notin FilterValues \cup {BroadbandUnknown}
    /\ Len(data_rows) >= 1
    /\ data_rows[Len(data_rows)] = last_extract.row

====
